---------------------------- MODULE Spec2Model ----------------------------
(***************************************************************************)
(* Model of graphiti-api/app/main.py: a FastAPI facade over a Graphiti     *)
(* client.  The state is the module's globals (configuration, the client   *)
(* handle), the position of the lifespan context manager, and a record of  *)
(* the request being answered: what was asked, what is answered, and which *)
(* calls the handler made on the external client.                          *)
(*                                                                         *)
(* Python's Optional values are sets of at most one element: None is {}    *)
(* and a value x is {x}.  Strings are TLA+ strings, concatenated by \o.    *)
(***************************************************************************)
EXTENDS Integers, Sequences, FiniteSets, TLC

None == {}
Some(x) == {x}
The(opt) == CHOOSE x \in opt : TRUE

\* Python truthiness of an Optional[str]: None and "" are falsy.
TruthyStr(opt) == opt # None /\ opt # Some("")
\* Python truthiness of an Optional[object]: only None is falsy.
Truthy(opt) == opt # None

(***************************************************************************)
(* Bounds of the model.                                                    *)
(***************************************************************************)
MaxHits == 2          \* longest result list the external search returns
MaxCount == 1         \* most nodes / edges / episodes the client reports

SeqUpTo(S, n) == UNION {[1..k -> S] : k \in 0..n}

(***************************************************************************)
(* Inputs.                                                                 *)
(***************************************************************************)
\* Values of os.getenv("TURKWISE_API_KEY"): unset, set empty, set.
Secrets == {None, Some(""), Some("k1")}
\* Values of os.getenv("TENANT_PREFIX", "turkwise_").
Prefixes == {"turkwise_", ""}
\* The X-API-KEY header of a request: absent, empty, right or wrong.
Headers == {None, Some(""), Some("k1"), Some("k2")}
Tenants == {"a", "turkwise_a"}
Sources == {"message", "MESSAGE", "carrier-pigeon"}
ReferenceTimes == {None, Some(""), Some("2024-01-01T00:00:00"), Some("not-a-date")}
Descriptions == {None, Some("chat")}
ClientErrors == {"boom"}

VARIABLES
    TURKWISE_API_KEY,   \* line 23, fixed at import
    TENANT_PREFIX,      \* line 24, fixed at import
    graphiti_client,    \* line 27, the global handle: None or Some("Graphiti")
    lifespan_pc,        \* where the lifespan context manager stands
    close_calls,        \* how often graphiti_client.close() has been called
    req,                \* the request being answered, if any
    resp,               \* its response, not yet delivered
    calls,              \* the calls its handler made on the external client
    returned,           \* what the external client did on each of these calls
    passed              \* every (tenant_id, group key) pair handed to the client so far

vars == <<TURKWISE_API_KEY, TENANT_PREFIX, graphiti_client, lifespan_pc, close_calls,
          req, resp, calls, returned, passed>>

config == <<TURKWISE_API_KEY, TENANT_PREFIX>>
lifecycle == <<graphiti_client, lifespan_pc, close_calls>>

(***************************************************************************)
(* Responses.                                                              *)
(***************************************************************************)
NoBody == [kind |-> "none"]
HTTPException(status_code, detail) ==
    [status |-> status_code, detail |-> detail, body |-> NoBody]
Ok(body) == [status |-> 200, detail |-> "", body |-> body]
\* An exception that leaves the handler uncaught.
Unhandled(e) == [status |-> 0, detail |-> e, body |-> NoBody]

Outcome(r, cs) == [resp |-> r, calls |-> cs]

(***************************************************************************)
(* Access guard, lines 30-36.                                              *)
(***************************************************************************)
\* APIKeyHeader(name="X-API-KEY", auto_error=True): a missing or empty
\* header is refused by the security scheme itself with "Not authenticated"
\* (status 403; 401 in later FastAPI releases).
api_key_header(header) ==
    IF ~ TruthyStr(header)
    THEN [passed |-> FALSE, error |-> HTTPException(403, "Not authenticated")]
    ELSE [passed |-> TRUE, api_key |-> The(header)]

verify_api_key_AcceptsAny(api_key) == [passed |-> TRUE, api_key |-> api_key]

verify_api_key(api_key) ==
    IF Some(api_key) # TURKWISE_API_KEY
    THEN [passed |-> FALSE, error |-> HTTPException(401, "Invalid API key")]
    ELSE [passed |-> TRUE, api_key |-> api_key]

\* dependencies=[Depends(verify_api_key)]: the dependency is resolved before
\* the endpoint function is entered.
Guard(header) ==
    LET h == api_key_header(header)
    IN  IF h.passed THEN verify_api_key(h.api_key) ELSE h

(***************************************************************************)
(* Tenant scoping: group_id = f"{TENANT_PREFIX}{tenant_id}", lines 126,    *)
(* 178, 220, 262, 314.                                                     *)
(***************************************************************************)
GroupId_PrefixOnly(tenant_id) == TENANT_PREFIX

GroupId(tenant_id) == TENANT_PREFIX \o tenant_id

(***************************************************************************)
(* POST /episodes, lines 115-165.                                          *)
(***************************************************************************)
\* EpisodeType's member names (graphiti_core.nodes).
EpisodeType == {"message", "json", "text"}

\* str.lower() on the source strings of the model.
Lower(s) == IF s = "MESSAGE" THEN "message" ELSE s

\* datetime.fromisoformat: a ValueError on anything that is no ISO date.
IsIsoFormat(s) == s \in {"2024-01-01T00:00:00"}
fromisoformat(s) == [datetime |-> s]
now == [datetime |-> "now"]

Raises(e) == [raises |-> TRUE, error |-> e]
Returns(x) == [raises |-> FALSE, result |-> x]

\* What graphiti_client.add_episode does when called: it raises, or it
\* returns the episode with the nodes and edges created.
AddEpisodeBehaviours ==
    {Raises(e) : e \in ClientErrors}
    \cup {Returns(r) : r \in [uuid : {"e1"}, created_at : {None, Some("t0")},
                              nodes : 0..MaxCount, edges : 0..MaxCount]}

add_episode(request, beh) ==
    IF ~ Truthy(graphiti_client)
    THEN Outcome(HTTPException(503, "Graphiti not initialized"), <<>>)
    ELSE
    LET group_id == GroupId(request.tenant_id) IN
    IF TruthyStr(request.reference_time) /\ ~ IsIsoFormat(The(request.reference_time))
    THEN \* ValueError, caught by "except Exception" (line 163)
         Outcome(HTTPException(500, "Invalid isoformat string"), <<>>)
    ELSE
    LET ref_time == IF TruthyStr(request.reference_time)
                    THEN fromisoformat(The(request.reference_time))
                    ELSE now
    IN
    IF Lower(request.source) \notin EpisodeType
    THEN \* KeyError -> HTTPException(400), re-raised by "except HTTPException"
         Outcome(HTTPException(400, "Invalid source type"), <<>>)
    ELSE
    LET name == IF TruthyStr(request.source_description)
                THEN The(request.source_description) ELSE "Customer Conversation"
        call == [op |-> "add_episode",
                 name |-> name,
                 episode_body |-> request.content,
                 source |-> Lower(request.source),
                 source_description |-> IF TruthyStr(request.source_description)
                                        THEN The(request.source_description) ELSE "",
                 reference_time |-> ref_time,
                 group_id |-> group_id]
    IN
    IF beh.raises
    THEN Outcome(HTTPException(500, beh.error), <<call>>)
    ELSE Outcome(Ok([kind |-> "episode",
                     success |-> TRUE,
                     group_id |-> group_id,
                     episode |-> [uuid |-> beh.result.uuid, name |-> name,
                                  created_at |-> beh.result.created_at],
                     nodes_created |-> beh.result.nodes,
                     edges_created |-> beh.result.edges]),
                 <<call>>)

(***************************************************************************)
(* POST /search, lines 168-207.                                            *)
(***************************************************************************)
\* Result objects are duck-typed: an attribute is there (Some) or not (None).
SearchHits ==
    { [uuid |-> Some("r1"), content |-> Some("c"), score |-> Some("0.9"),
       created_at |-> Some("t0")],
      [uuid |-> Some("r2"), content |-> Some("c"), score |-> None, created_at |-> None],
      [uuid |-> Some("r3"), content |-> None, score |-> None, created_at |-> None] }

SearchBehaviours ==
    {Raises(e) : e \in ClientErrors} \cup {Returns(r) : r \in SeqUpTo(SearchHits, MaxHits)}

\* search_memory with the try/except of lines 180 and 205-207 left out.
search_memory_NoExcept(request, beh) ==
    IF ~ Truthy(graphiti_client)
    THEN Outcome(HTTPException(503, "Graphiti not initialized"), <<>>)
    ELSE
    LET group_id == GroupId(request.tenant_id)
        call == [op |-> "search", query |-> request.query,
                 group_ids |-> <<group_id>>, limit |-> request.limit]
    IN
    IF beh.raises
    THEN Outcome(Unhandled(beh.error), <<call>>)
    ELSE
    LET results == beh.result IN
    IF \E i \in 1..Len(results) : results[i].uuid = None \/ results[i].content = None
    THEN Outcome(Unhandled("AttributeError"), <<call>>)
    ELSE Outcome(Ok([kind |-> "search",
                     success |-> TRUE,
                     query |-> request.query,
                     group_id |-> group_id,
                     results_count |-> Len(results),
                     results |-> [i \in 1..Len(results) |->
                                    [uuid |-> The(results[i].uuid),
                                     content |-> The(results[i].content),
                                     score |-> results[i].score,
                                     created_at |-> results[i].created_at]]]),
                 <<call>>)

search_memory(request, beh) ==
    IF ~ Truthy(graphiti_client)
    THEN Outcome(HTTPException(503, "Graphiti not initialized"), <<>>)
    ELSE
    LET group_id == GroupId(request.tenant_id)
        call == [op |-> "search", query |-> request.query,
                 group_ids |-> <<group_id>>, limit |-> request.limit]
    IN
    IF beh.raises
    THEN Outcome(HTTPException(500, beh.error), <<call>>)
    ELSE
    LET results == beh.result IN
    IF \E i \in 1..Len(results) : results[i].uuid = None \/ results[i].content = None
    THEN \* r.uuid / r.content: AttributeError, caught at line 205
         Outcome(HTTPException(500, "AttributeError"), <<call>>)
    ELSE Outcome(Ok([kind |-> "search",
                     success |-> TRUE,
                     query |-> request.query,
                     group_id |-> group_id,
                     results_count |-> Len(results),
                     results |-> [i \in 1..Len(results) |->
                                    [uuid |-> The(results[i].uuid),
                                     content |-> The(results[i].content),
                                     score |-> results[i].score,
                                     created_at |-> results[i].created_at]]]),
                 <<call>>)

(***************************************************************************)
(* GET /entities/{tenant_id}, lines 210-249.                               *)
(***************************************************************************)
Facts ==
    { [name |-> Some("n1"), uuid |-> Some("u1"), summary |-> Some("s")],
      [name |-> Some("n1"), uuid |-> Some("u2"), summary |-> None],
      [name |-> Some("n2"), uuid |-> Some("u1"), summary |-> Some("s")],
      [name |-> None,       uuid |-> Some("u1"), summary |-> None],
      [name |-> Some("n1"), uuid |-> None,       summary |-> None] }

\* A search hit either carries a fact or has no such attribute.
Hits == {[fact |-> None]} \cup {[fact |-> Some(f)] : f \in Facts}

EntityBehaviours ==
    {Raises(e) : e \in ClientErrors} \cup {Returns(r) : r \in SeqUpTo(Hits, MaxHits)}

\* entities_dict[key] = value on a dict that keeps insertion order.
DictSet(d, key, value) ==
    IF \E i \in 1..Len(d) : d[i].key = key
    THEN [i \in 1..Len(d) |-> IF d[i].key = key THEN [key |-> key, value |-> value] ELSE d[i]]
    ELSE Append(d, [key |-> key, value |-> value])

\* Lines 231-238: the loop over the results; result.fact.uuid raises an
\* AttributeError on a fact that has a name and no uuid.
RECURSIVE EntitiesLoop(_, _, _)
EntitiesLoop(results, i, entities_dict) ==
    IF i > Len(results) THEN [raises |-> FALSE, dict |-> entities_dict]
    ELSE LET result == results[i] IN
         IF result.fact # None /\ The(result.fact).name # None
         THEN LET fact == The(result.fact) IN
              IF fact.uuid = None
              THEN [raises |-> TRUE, dict |-> entities_dict]
              ELSE EntitiesLoop(results, i + 1,
                                DictSet(entities_dict, The(fact.name),
                                        [name |-> The(fact.name),
                                         uuid |-> The(fact.uuid),
                                         summary |-> fact.summary]))
         ELSE EntitiesLoop(results, i + 1, entities_dict)

get_entities(tenant_id, beh) ==
    IF ~ Truthy(graphiti_client)
    THEN Outcome(HTTPException(503, "Graphiti not initialized"), <<>>)
    ELSE
    LET group_id == GroupId(tenant_id)
        call == [op |-> "search", query |-> "", group_ids |-> <<group_id>>,
                 num_results |-> 1000]
    IN
    IF beh.raises
    THEN Outcome(HTTPException(500, beh.error), <<call>>)
    ELSE
    LET loop == EntitiesLoop(beh.result, 1, <<>>) IN
    IF loop.raises
    THEN Outcome(HTTPException(500, "AttributeError"), <<call>>)
    ELSE Outcome(Ok([kind |-> "entities",
                     success |-> TRUE,
                     group_id |-> group_id,
                     entities_count |-> Len(loop.dict),
                     entities |-> [i \in 1..Len(loop.dict) |-> loop.dict[i].value]]),
                 <<call>>)

(***************************************************************************)
(* GET /stats/{tenant_id}, lines 252-295.                                  *)
(***************************************************************************)
\* Lines 280-283: the set of the uuids of the facts that have one.
unique_entities(entity_results) ==
    { The(The(entity_results[i].fact).uuid) :
        i \in { j \in 1..Len(entity_results) :
                  /\ entity_results[j].fact # None
                  /\ The(entity_results[j].fact).uuid # None } }

\* retrieve_episodes raises or returns a list, of which only the length is
\* used; the search that follows raises or returns hits.
EpisodesBehaviours ==
    {Raises(e) : e \in ClientErrors} \cup {Returns(n) : n \in 0..MaxCount}

get_tenant_stats(tenant_id, beh_episodes, beh_search) ==
    IF ~ Truthy(graphiti_client)
    THEN Outcome(HTTPException(503, "Graphiti not initialized"), <<>>)
    ELSE
    LET group_id == GroupId(tenant_id)
        call1 == [op |-> "retrieve_episodes", reference_time |-> now, last_n |-> 10000,
                  group_ids |-> <<group_id>>]
        call2 == [op |-> "search", query |-> "", group_ids |-> <<group_id>>,
                  num_results |-> 10000]
    IN
    IF beh_episodes.raises
    THEN Outcome(HTTPException(500, beh_episodes.error), <<call1>>)
    ELSE IF beh_search.raises
    THEN Outcome(HTTPException(500, beh_search.error), <<call1, call2>>)
    ELSE Outcome(Ok([kind |-> "stats",
                     success |-> TRUE,
                     tenant_id |-> tenant_id,
                     group_id |-> group_id,
                     episodes_count |-> beh_episodes.result,
                     entities_count |-> Cardinality(unique_entities(beh_search.result))]),
                 <<call1, call2>>)

(***************************************************************************)
(* DELETE /tenant/{tenant_id}, lines 298-330.                              *)
(***************************************************************************)
ClearBehaviours == {Raises(e) : e \in ClientErrors} \cup {Returns("cleared")}

\* delete_tenant_data with the confirmation check of lines 305-309 left out.
delete_tenant_data_NoConfirm(tenant_id, confirm, beh) ==
    IF ~ Truthy(graphiti_client)
    THEN Outcome(HTTPException(503, "Graphiti not initialized"), <<>>)
    ELSE
    LET group_id == GroupId(tenant_id)
        call == [op |-> "clear_data", group_id |-> group_id]
    IN
    IF beh.raises
    THEN Outcome(HTTPException(500, beh.error), <<call>>)
    ELSE Outcome(Ok([kind |-> "deleted",
                     success |-> TRUE,
                     group_id |-> group_id]),
                 <<call>>)

delete_tenant_data(tenant_id, confirm, beh) ==
    IF ~ confirm
    THEN Outcome(HTTPException(400, "Must set confirm=true to delete tenant data"), <<>>)
    ELSE
    IF ~ Truthy(graphiti_client)
    THEN Outcome(HTTPException(503, "Graphiti not initialized"), <<>>)
    ELSE
    LET group_id == GroupId(tenant_id)
        call == [op |-> "clear_data", group_id |-> group_id]
    IN
    IF beh.raises
    THEN Outcome(HTTPException(500, beh.error), <<call>>)
    ELSE Outcome(Ok([kind |-> "deleted",
                     success |-> TRUE,
                     group_id |-> group_id]),
                 <<call>>)

(***************************************************************************)
(* GET /health, lines 105-112.                                             *)
(***************************************************************************)
health_check ==
    Outcome(Ok([kind |-> "health",
                status |-> "healthy",
                graphiti |-> IF Truthy(graphiti_client) THEN "connected" ELSE "disconnected"]),
            <<>>)

(***************************************************************************)
(* Handling one request: the guard, then the endpoint function.  Requests  *)
(* are observed one at a time: a request is taken when no response is      *)
(* waiting, and Deliver hands the waiting response to the caller.  The     *)
(* endpoint functions test nothing but the global handle, so a request may *)
(* be handled wherever the lifespan manager stands: before it has run,     *)
(* while it is suspended in the preparation step, and after it was left.   *)
(***************************************************************************)
NoRequest == [endpoint |-> "none"]
NoResponse == [status |-> 0, detail |-> "", body |-> NoBody]
Idle == req = NoRequest

GroupOf(call) == IF call.op \in {"clear_data", "add_episode"}
                 THEN call.group_id ELSE call.group_ids[1]

\* The ways the client may behave on a call the handler makes; when the
\* handler makes no call, nothing is drawn.
Drawn(called, behaviours) == IF called THEN behaviours ELSE {Raises("not called")}

Handle(request, guarded, out, behs) ==
    /\ Idle
    /\ req' = request
    /\ resp' = IF guarded.passed THEN out.resp ELSE guarded.error
    /\ calls' = IF guarded.passed THEN out.calls ELSE <<>>
    /\ returned' = IF guarded.passed THEN SubSeq(behs, 1, Len(out.calls)) ELSE <<>>
    /\ passed' = IF guarded.passed
                 THEN passed \cup {<<request.tenant_id, GroupOf(out.calls[i])>> :
                                     i \in 1..Len(out.calls)}
                 ELSE passed
    /\ UNCHANGED <<config, lifecycle>>

HealthCheck ==
    \E header \in Headers :
      Handle([endpoint |-> "health", api_key |-> header], [passed |-> TRUE],
             health_check, <<>>)

AddEpisode ==
    \E header \in Headers, tenant_id \in Tenants, source \in Sources,
       reference_time \in ReferenceTimes, source_description \in Descriptions :
        LET request == [endpoint |-> "episodes", api_key |-> header,
                        tenant_id |-> tenant_id, content |-> "hello",
                        source |-> source, source_description |-> source_description,
                        reference_time |-> reference_time]
            guarded == Guard(header)
            called == guarded.passed /\ add_episode(request, Raises("probe")).calls # <<>>
        IN  \E beh \in Drawn(called, AddEpisodeBehaviours) :
              Handle(request, guarded, add_episode(request, beh), <<beh>>)

SearchMemory ==
    \E header \in Headers, tenant_id \in Tenants :
        LET request == [endpoint |-> "search", api_key |-> header,
                        tenant_id |-> tenant_id, query |-> "q", limit |-> 10,
                        include_edges |-> TRUE]
            guarded == Guard(header)
            called == guarded.passed /\ search_memory(request, Raises("probe")).calls # <<>>
        IN  \E beh \in Drawn(called, SearchBehaviours) :
              Handle(request, guarded, search_memory(request, beh), <<beh>>)

GetEntities ==
    \E header \in Headers, tenant_id \in Tenants :
        LET request == [endpoint |-> "entities", api_key |-> header,
                        tenant_id |-> tenant_id]
            guarded == Guard(header)
            called == guarded.passed /\ get_entities(tenant_id, Raises("probe")).calls # <<>>
        IN  \E beh \in Drawn(called, EntityBehaviours) :
              Handle(request, guarded, get_entities(tenant_id, beh), <<beh>>)

GetTenantStats ==
    \E header \in Headers, tenant_id \in Tenants :
        LET request == [endpoint |-> "stats", api_key |-> header,
                        tenant_id |-> tenant_id]
            guarded == Guard(header)
            probe == Raises("probe")
            called == guarded.passed
                      /\ get_tenant_stats(tenant_id, probe, probe).calls # <<>>
        IN  \E beh_episodes \in Drawn(called, EpisodesBehaviours) :
              \E beh_search \in Drawn(called /\ ~ beh_episodes.raises, EntityBehaviours) :
                Handle(request, guarded,
                       get_tenant_stats(tenant_id, beh_episodes, beh_search),
                       <<beh_episodes, beh_search>>)

DeleteTenantData ==
    \E header \in Headers, tenant_id \in Tenants, confirm \in BOOLEAN :
        LET request == [endpoint |-> "tenant", api_key |-> header,
                        tenant_id |-> tenant_id, confirm |-> confirm]
            guarded == Guard(header)
            called == guarded.passed
                      /\ delete_tenant_data(tenant_id, confirm, Raises("probe")).calls # <<>>
        IN  \E beh \in Drawn(called, ClearBehaviours) :
              Handle(request, guarded, delete_tenant_data(tenant_id, confirm, beh), <<beh>>)

Deliver ==
    /\ ~ Idle
    /\ req' = NoRequest
    /\ resp' = NoResponse
    /\ calls' = <<>>
    /\ returned' = <<>>
    /\ UNCHANGED <<config, lifecycle, passed>>

(***************************************************************************)
(* The lifespan context manager, lines 39-66.  A handler runs from its     *)
(* guard to its response in one step, so the manager moves between         *)
(* requests: lifespan_pc is its position while the request on record was   *)
(* handled.                                                                *)
(***************************************************************************)
observed == <<req, resp, calls, returned, passed>>

\* Lines 42-58 up to the first suspension: the driver and the client are
\* constructed, the global is assigned, and build_indices_and_constraints()
\* is awaited.  Either constructor may raise; the exception leaves the
\* context manager with the global still None.
LifespanEnter ==
    /\ Idle
    /\ lifespan_pc = "start"
    /\ \/ /\ lifespan_pc' = "startup_failed"
          /\ UNCHANGED graphiti_client
       \/ /\ graphiti_client' = Some("Graphiti")
          /\ lifespan_pc' = "build_indices"
    /\ UNCHANGED <<config, close_calls, observed>>

\* Line 58 resumes: the preparation step returns, and the manager yields
\* (line 61), or it raises, and the exception leaves the context manager.
LifespanBuildIndices ==
    /\ Idle
    /\ lifespan_pc = "build_indices"
    /\ \/ lifespan_pc' = "yield"
       \/ lifespan_pc' = "startup_failed"
    /\ UNCHANGED <<config, graphiti_client, close_calls, observed>>

\* Lines 63-66: the context is left normally.
LifespanExit ==
    /\ Idle
    /\ lifespan_pc = "yield"
    /\ close_calls' = IF Truthy(graphiti_client) THEN close_calls + 1 ELSE close_calls
    /\ lifespan_pc' = "done"
    /\ UNCHANGED <<config, graphiti_client, observed>>

\* Line 61: an exception is thrown into the generator at the yield.  No
\* try/finally encloses the yield, so lines 63-66 do not run.
LifespanThrow ==
    /\ Idle
    /\ lifespan_pc = "yield"
    /\ lifespan_pc' = "aborted"
    /\ UNCHANGED <<config, graphiti_client, close_calls, observed>>

Init ==
    /\ TURKWISE_API_KEY \in Secrets
    /\ TENANT_PREFIX \in Prefixes
    /\ graphiti_client = None
    /\ Idle
    /\ lifespan_pc = "start"
    /\ close_calls = 0
    /\ req = NoRequest
    /\ resp = NoResponse
    /\ calls = <<>>
    /\ returned = <<>>
    /\ passed = {}

Next ==
    \/ LifespanEnter
    \/ LifespanBuildIndices
    \/ LifespanExit
    \/ LifespanThrow
    \/ HealthCheck
    \/ AddEpisode
    \/ SearchMemory
    \/ GetEntities
    \/ GetTenantStats
    \/ DeleteTenantData
    \/ Deliver

Spec == Init /\ [][Next]_vars

(***************************************************************************)
(* Properties.  They speak of the request on record: req, its response     *)
(* resp, the client calls made for it, and the state it was handled in.    *)
(***************************************************************************)
AuthEndpoints == {"episodes", "search", "entities", "stats", "tenant"}

\* The header is one that reaches verify_api_key and equals the secret.
Authenticated == TruthyStr(req.api_key) /\ req.api_key = TURKWISE_API_KEY
\* The header is present and equals the configured secret.
HeaderEqualsSecret == req.api_key # None /\ req.api_key = TURKWISE_API_KEY

AuthenticationError == resp.status \in {401, 403}
ClientError == resp.status \in 400..499

\* The lifespan manager has reached its yield: startup has completed.
StartupComplete == lifespan_pc \in {"yield", "done", "aborted"}
\* The lifespan manager stands at its yield: the application is running.
Serving == lifespan_pc = "yield"
\* The lifespan manager has been left, normally or by an exception.
LifespanOver == lifespan_pc \in {"done", "startup_failed", "aborted"}

ScopedKey == TENANT_PREFIX \o req.tenant_id

\* C1 (as amended): on every auth-required endpoint a request whose
\* X-API-KEY header is non-empty and equals the configured secret passes
\* the guard; a request with any other value, an empty value or no header
\* is rejected with an authentication error and causes no call to the
\* external client.
C1_GuardNonEmptySecret ==
    req.endpoint \in AuthEndpoints =>
        IF Authenticated
        THEN ~ AuthenticationError
        ELSE AuthenticationError /\ calls = <<>>

\* C1 (as stated): a request whose header equals the configured secret
\* always passes the guard; any other is rejected without a client call.
C1_GuardAsStated ==
    req.endpoint \in AuthEndpoints =>
        IF HeaderEqualsSecret
        THEN ~ AuthenticationError
        ELSE AuthenticationError /\ calls = <<>>

C1_Witness ==
    /\ req.endpoint = "episodes"
    /\ Authenticated
    /\ resp.status = 200
    /\ Len(calls) = 1

C3_DeleteNeedsConfirm ==
    req.endpoint = "tenant" =>
        /\ ~ req.confirm =>
             /\ ClientError
             /\ Authenticated => resp.status = 400
             /\ calls = <<>>
        /\ (req.confirm /\ Authenticated /\ Truthy(graphiti_client)) =>
             calls = <<[op |-> "clear_data", group_id |-> ScopedKey]>>

C3_Witness ==
    /\ req.endpoint = "tenant"
    /\ req.confirm
    /\ Authenticated
    /\ resp.status = 200
    /\ Len(calls) = 1

\* C4: an episode submission whose source kind is not recognised is
\* rejected with status 400 and makes no ingestion call, whatever its
\* reference timestamp (stated for an authenticated request handled while
\* the application is running).
C4_BadSourceIs400 ==
    (/\ req.endpoint = "episodes"
     /\ Authenticated
     /\ Serving
     /\ Lower(req.source) \notin EpisodeType)
    => (resp.status = 400 /\ calls = <<>>)

\* C5: an episode submission whose reference timestamp fails to parse is
\* answered with a client error and makes no call; without a timestamp
\* the reference time is the current time and the submission is forwarded
\* (stated for an authenticated request handled while the application is
\* running).
C5_BadTimestampIsClientError ==
    (/\ req.endpoint = "episodes"
     /\ Authenticated
     /\ Serving)
    => /\ (TruthyStr(req.reference_time) /\ ~ IsIsoFormat(The(req.reference_time)))
            => (ClientError /\ calls = <<>>)
       /\ (req.reference_time = None /\ Lower(req.source) \in EpisodeType)
            => (Len(calls) = 1 /\ calls[1].reference_time = now)

\* C6: in every handler an exception raised by the external client ends
\* the request with status 500 carrying the exception's message: no
\* request ends in an unhandled fault, no call follows the failed one and
\* no call is made twice; the 400 raised in add_episode for an
\* unrecognised source stays a 400.
C6_UpstreamFailureIs500 ==
    req.endpoint \in AuthEndpoints =>
        /\ resp.status # 0
        /\ Len(returned) = Len(calls)
        /\ \A i \in 1..Len(calls) :
             returned[i].raises =>
                /\ i = Len(calls)
                /\ resp.status = 500
                /\ resp.detail = returned[i].error
        /\ \A i \in 1..Len(calls) : \A j \in 1..Len(calls) :
             i # j => calls[i].op # calls[j].op
        /\ (/\ req.endpoint = "episodes"
            /\ Authenticated
            /\ Truthy(graphiti_client)
            /\ ~ (TruthyStr(req.reference_time) /\ ~ IsIsoFormat(The(req.reference_time)))
            /\ Lower(req.source) \notin EpisodeType)
           => resp.status = 400

C6_Witness ==
    /\ req.endpoint = "stats"
    /\ Len(calls) = 2
    /\ returned[2].raises
    /\ resp.status = 500

\* C7: an authenticated request (a delete with confirm=true) handled
\* before startup has completed -- not run, index preparation pending, or
\* failed -- is answered 503 and makes no call to the external client.
C7_Unavailable503 ==
    (/\ req.endpoint \in AuthEndpoints
     /\ Authenticated
     /\ req.endpoint = "tenant" => req.confirm
     /\ ~ StartupComplete)
    => (resp.status = 503 /\ calls = <<>>)

\* C8: once the lifespan manager has constructed the client, close() has
\* been called exactly once by the time the manager has been left, on
\* every exit path.
C8_ClosedOnEveryExit ==
    /\ close_calls <= 1
    /\ (Truthy(graphiti_client) /\ LifespanOver) => close_calls = 1

\* C9: GET /health needs no authentication and answers 200 in every
\* state; before startup has completed it reports the client
\* disconnected, and it reports it connected only once startup has
\* completed.
C9_HealthTracksStartup ==
    req.endpoint = "health" =>
        /\ resp.status = 200
        /\ ~ StartupComplete => resp.body.graphiti = "disconnected"
        /\ resp.body.graphiti = "connected" => StartupComplete

\* C10: GET /entities answers with exactly one entry per distinct entity
\* uuid among the hits, and its entities_count is that number of distinct
\* uuids, the entities_count GET /stats computes from the same hits
\* (stated for a request answered 200 while the application is running).
C10_EntitiesDedupByUuid ==
    (req.endpoint = "entities" /\ resp.status = 200 /\ Serving) =>
        LET hits == returned[1].result
            uuids == unique_entities(hits)
            entities == resp.body.entities
        IN  /\ resp.body.entities_count = Cardinality(uuids)
            /\ Len(entities) = Cardinality(uuids)
            /\ {entities[i].uuid : i \in 1..Len(entities)} = uuids

=============================================================================
